---- MODULE Spec2Model ----
(***************************************************************************)
(* Chunked video upload client of the instructor frontend                  *)
(* (src/src/services/upload.service.ts).  One invocation of uploadVideo is *)
(* modelled as the sequence of its continuations between awaits; the       *)
(* network (upload endpoint, storage HEAD probe, per-chunk timer) is the   *)
(* environment and answers nondeterministically.                           *)
(*                                                                         *)
(* Sizes are counted in MiB: chunkSize is 10 (10 * 1024 * 1024 bytes).     *)
(***************************************************************************)
EXTENDS Integers, Sequences, FiniteSets, TLC

VARIABLES
    PRIMARY_API_URL,      \* module constant computed once from the location
    file,                 \* the File argument: [size]
    pc,                   \* position of the async function
    chunks,               \* const chunks = Math.ceil(file.size / chunkSize)
    start,                \* loop variable of the chunk loop
    baseUrl,              \* let baseUrl
    hasSwitchedToDirect,  \* let hasSwitchedToDirect
    response,             \* const response of the current iteration
    timer,                \* the setTimeout armed for the current chunk
    attempt,              \* loop variable of the storage polling loop
    error,                \* the error caught by the per-chunk catch
    lastProbe,            \* outcome of the latest HEAD probe
    headProbes,           \* history: number of HEAD probes issued
    exchanges,            \* history: POST exchanges issued, with outcomes
    calls,                \* history: callbacks invoked, in order
    candidate,            \* the File argument of validateVideoFile
    validation,           \* what validateVideoFile returned for it
    peer,                 \* the closure of a second, suspended invocation
    auth_token,           \* localStorage item 'auth_token' ("" when absent)
    pathname,             \* window.location.pathname
    hrefAssignments,      \* history: assignments to window.location.href
    requests,             \* history: requests sent through the axios instance
    dual,                 \* the closure of the dual-endpoint variant
    single                \* the closure of the single-endpoint variant

vars == <<PRIMARY_API_URL, file, pc, chunks, start, baseUrl,
          hasSwitchedToDirect, response, timer, attempt, error, lastProbe,
          headProbes, exchanges, calls, candidate, validation, peer,
          auth_token, pathname, hrefAssignments, requests, dual, single>>

\* the state the upload service and its validator work on
uploadVars == <<PRIMARY_API_URL, file, pc, chunks, start, baseUrl,
                hasSwitchedToDirect, response, timer, attempt, error,
                lastProbe, headProbes, exchanges, calls, candidate,
                validation, peer>>

\* the state the HTTP client works on
httpVars == <<auth_token, pathname, hrefAssignments, requests>>

\* the closures of the two earlier variants of uploadVideo
variantVars == <<dual, single>>

\* ------------------------------------------------------------------ bounds
MaxFileSize == 21

\* sizes around the limit that validateVideoFile is tried on
ValidateMargin == 4
\* size of the first of two files uploaded concurrently (the second is one
\* MiB larger), and the number of storage probes followed in such runs
PairFileSize == 11
PairMaxProbes == 2

\* requests sent through the axios instance in a run of the HTTP client
MaxRequests == 2

\* file sizes (MiB) and storage probes followed when the three variants of
\* uploadVideo run side by side
VariantFileSize == 21
VariantMaxProbes == 2

\* --------------------------------------------------------------- constants
chunkSize == 10
\* 5000 * 1024 * 1024 bytes, in MiB
maxVideoSize == 5000
maxAttempts == 36
PROXY_URL == "/api"
LOCAL_URL == "http://localhost:5001/api"
DIRECT_BACKEND_URL == "https://trizenlmsinstructorbackend.llp.trizenventures.com/api"
CHUNK_TIMEOUT_MS == "CHUNK_TIMEOUT_MS"
FINAL_CHUNK_TIMEOUT_MS == "FINAL_CHUNK_TIMEOUT_MS"

\* const PRIMARY_API_URL = hostname.endsWith("trizenventures.com") ? ... : ...
PrimaryApiUrl(onProductionHost) ==
    IF onProductionHost THEN PROXY_URL ELSE LOCAL_URL

\* ------------------------------------------------------- the environment
Statuses == {200, 500, 502, 504}

Messages == {"", "Upload complete", "Saved to local storage",
             "Used fallback store"}
VideoUrls == {"", "https://storage/video.mp4", "http://localhost:5001/v.mp4",
              "http://127.0.0.1:5001/v.mp4"}
ErrorTexts == {"", "Disk quota exceeded"}

\* A response body: json = FALSE when the body is not JSON; an empty string
\* stands for an absent (falsy) field; videoUrl is file.videoUrl.
Bodies ==
    [json : {TRUE}, error : ErrorTexts, message : Messages, videoUrl : VideoUrls]
    \cup {[json |-> FALSE, error |-> "", message |-> "", videoUrl |-> ""]}

Responses == [status : Statuses, body : Bodies]

NoResponse == [status |-> 0,
               body |-> [json |-> FALSE, error |-> "", message |-> "",
                         videoUrl |-> ""]]

\* String.prototype.includes on the texts above
Substrings(text) ==
    CASE text = "Saved to local storage"       -> {"local storage"}
      [] text = "Used fallback store"          -> {"fallback"}
      [] text = "http://localhost:5001/v.mp4"  -> {"localhost"}
      [] text = "http://127.0.0.1:5001/v.mp4"  -> {"127.0.0.1"}
      [] OTHER                                 -> {}

Includes(text, needle) == needle \in Substrings(text)

\* ------------------------------------------------------------ pure helpers
Min(a, b) == IF a < b THEN a ELSE b
Max(a, b) == IF a > b THEN a ELSE b

\* Math.floor in the place of Math.ceil
MathFloorDiv(a, b) == a \div b

\* Math.ceil(a / b)
MathCeilDiv(a, b) == IF a % b = 0 THEN a \div b ELSE (a \div b) + 1

\* Math.floor(start / chunkSize)
ChunkIndex(s) == s \div chunkSize

\* file.slice(s, e).size
SliceSize(f, s, e) == Max(0, Min(e, f.size) - Min(s, f.size))

\* a final-chunk test that compares the index with the chunk count
IsFinalChunkOffByOne(s, n) == ChunkIndex(s) = n

\* Math.floor(start / chunkSize) === chunks - 1
IsFinalChunk(s, n) == ChunkIndex(s) = n - 1

\* a response.ok that accepts every status
ResponseOkAlways(resp) == resp.status \in 200..599

\* response.ok
ResponseOk(resp) == resp.status \in 200..299

\* the first fetch of an iteration posting to the configured default
RequestUrlDefault(url) == PRIMARY_API_URL

\* `${baseUrl}/upload` of the first fetch of an iteration
RequestUrl(url) == url

\* the for-loop increment
NextStart(s) == s + chunkSize

\* a switch condition that forgets that the switch was already made
ShouldSwitchEveryTime(resp) ==
    /\ PRIMARY_API_URL = PROXY_URL
    /\ resp.status \in {502, 504}

\* a switch condition that forgets the bad-gateway status
ShouldSwitchOn504Only(resp) ==
    /\ ~hasSwitchedToDirect
    /\ PRIMARY_API_URL = PROXY_URL
    /\ resp.status = 504

\* a switch condition that does not look at the configured primary endpoint
ShouldSwitchAnyPrimary(resp) ==
    /\ ~hasSwitchedToDirect
    /\ (resp.status = 504 \/ resp.status = 502)

\* !hasSwitchedToDirect && PRIMARY_API_URL === "/api" && (504 || 502)
ShouldSwitch(resp) ==
    /\ ~hasSwitchedToDirect
    /\ PRIMARY_API_URL = PROXY_URL
    /\ (resp.status = 504 \/ resp.status = 502)

\* an error that always carries the generic status message
HttpErrorGeneric(resp) ==
    [name |-> "Error", message |-> "Chunk upload failed with status",
     status |-> resp.status]

\* new Error(errorData.error || `Chunk upload failed with status: ${status}`)
\* where errorData = await response.json().catch(() => ({}))
HttpError(resp) ==
    IF resp.body.json /\ resp.body.error # ""
    THEN [name |-> "Error", message |-> resp.body.error, status |-> 0]
    ELSE [name |-> "Error", message |-> "Chunk upload failed with status",
          status |-> resp.status]

InvalidResponseError ==
    [name |-> "Error",
     message |-> "Invalid response from server for the final chunk",
     status |-> 0]
SyntaxError == [name |-> "SyntaxError", message |-> "Unexpected token", status |-> 0]
NetworkError == [name |-> "TypeError", message |-> "Failed to fetch", status |-> 0]
AbortError == [name |-> "AbortError", message |-> "The operation was aborted", status |-> 0]
NoError == [name |-> "", message |-> "", status |-> 0]

\* responseData.message && (includes("local storage") || includes("fallback")
\*   || (file && file.videoUrl && (includes('localhost') || includes('127.0.0.1'))))
UsingFallback(body) ==
    /\ body.message # ""
    /\ \/ Includes(body.message, "local storage")
       \/ Includes(body.message, "fallback")
       \/ /\ body.videoUrl # ""
          /\ \/ Includes(body.videoUrl, "localhost")
             \/ Includes(body.videoUrl, "127.0.0.1")

\* progress values are exact fractions num/den (percent)
Percent(n, d) == [num |-> n, den |-> d]
Hundred == Percent(100, 1)

\* Math.min(p, 100)
MinHundred(p) == IF p.num > 100 * p.den THEN Hundred ELSE p

\* a progress computed from the length of the current chunk alone
CurrentProgressPerChunk(s) ==
    MinHundred(Percent(100 * SliceSize(file, s, s + chunkSize), file.size))

\* a progress computed from the start offset of the current chunk
CurrentProgressAtStart(s) ==
    MinHundred(Percent(100 * s, file.size))

\* Math.min(((start + chunk.size) / file.size) * 100, 100)
CurrentProgress(s) ==
    MinHundred(Percent(100 * (s + SliceSize(file, s, s + chunkSize)), file.size))

\* ------------------------------------------------------- callback records
NoInfo == [videoUrl |-> "", message |-> ""]
OnProgress(p) ==
    [fn |-> "onProgress", progress |-> p, fileInfo |-> NoInfo,
     usingFallback |-> FALSE, error |-> NoError]
OnComplete(info, fallback) ==
    [fn |-> "onComplete", progress |-> Percent(0, 1), fileInfo |-> info,
     usingFallback |-> fallback, error |-> NoError]
OnError(err) ==
    [fn |-> "onError", progress |-> Percent(0, 1), fileInfo |-> NoInfo,
     usingFallback |-> FALSE, error |-> err]

\* fileInfo = {...responseData.file, message: responseData.message}
ResponseFileInfo(body) == [videoUrl |-> body.videoUrl, message |-> body.message]

\* the UploadedFileInfo built after a successful HEAD probe
MinioFileInfo ==
    [videoUrl |-> "https://lmsbackendminio-api.llp.trizenventures.com/webdevbootcamp1/name",
     message |-> "File uploaded; server response timed out. URL confirmed by storage."]

\* ------------------------------------------------------- exchange records
\* outcome of an exchange: still in flight, answered (the status, for the
\* exchanges of the final chunk whether the body holds file.videoUrl, and for
\* a non-success status the error text of the body), or failed without a
\* response ("network", "abort")
Pending ==
    [kind |-> "pending", status |-> 0, hasVideoUrl |-> FALSE, error |-> ""]
Answered(resp, isFinal) ==
    [kind |-> "response", status |-> resp.status,
     hasVideoUrl |-> isFinal /\ resp.body.json /\ resp.body.videoUrl # "",
     error |-> IF resp.status \in 200..299 THEN "" ELSE resp.body.error]
Failed(how) ==
    [kind |-> how, status |-> 0, hasVideoUrl |-> FALSE, error |-> ""]

\* formData of the iteration and the endpoint it is posted to
Request(s, n, url, isRetry) ==
    [chunk |-> ChunkIndex(s),
     totalChunks |-> n,
     bytes |-> SliceSize(file, s, s + chunkSize),
     url |-> url,
     retry |-> isRetry,
     final |-> IsFinalChunk(s, n),
     outcome |-> Pending]

\* the log with the outcome of the exchange in flight filled in
Close(log, outcome) ==
    [log EXCEPT ![Len(log)] = [@ EXCEPT !.outcome = outcome]]

\* ------------------------------------------------ closures of invocations
\* Everything uploadVideo declares lives in the closure of one invocation
\* (its parameters, const chunks, let baseUrl, let hasSwitchedToDirect, the
\* loop variables, the per-iteration consts), together with the history of
\* that invocation.  Only PRIMARY_API_URL is module-level.
Locals ==
    [file |-> file, pc |-> pc, chunks |-> chunks, start |-> start,
     baseUrl |-> baseUrl, hasSwitchedToDirect |-> hasSwitchedToDirect,
     response |-> response, timer |-> timer, attempt |-> attempt,
     error |-> error, lastProbe |-> lastProbe, headProbes |-> headProbes,
     exchanges |-> exchanges, calls |-> calls]

\* the closure of an invocation on a file of n MiB that has not started
IdleLocals(n) ==
    [file |-> [size |-> n], pc |-> "idle", chunks |-> 0, start |-> 0,
     baseUrl |-> "", hasSwitchedToDirect |-> FALSE,
     response |-> NoResponse, timer |-> "none", attempt |-> 0,
     error |-> NoError, lastProbe |-> "none", headProbes |-> 0,
     exchanges |-> <<>>, calls |-> <<>>]

\* a baseUrl declared at module level: a resumed invocation finds whatever
\* the invocation that ran last left in it
ModuleLevelBaseUrl(closure) == baseUrl

\* let baseUrl = PRIMARY_API_URL inside uploadVideo: a resumed invocation
\* finds the baseUrl of its own closure
ClosureBaseUrl(closure) == closure.baseUrl

\* ------------------------------------------------------ validateVideoFile
MediaTypes == {"video/mp4", "video/webm", "image/png",
               "application/x-video/mp4", ""}

\* String.prototype.startsWith on the media types above
Prefixes(text) ==
    CASE text = "video/mp4"                -> {"video/"}
      [] text = "video/webm"               -> {"video/"}
      [] text = "image/png"                -> {"image/"}
      [] text = "application/x-video/mp4"  -> {"application/"}
      [] OTHER                             -> {}

StartsWith(text, prefix) == prefix \in Prefixes(text)

\* a File (present = TRUE) or null / undefined (present = FALSE)
NullFile == [present |-> FALSE, type |-> "", size |-> 0]
Candidates ==
    [present : {TRUE},
     type : MediaTypes,
     size : {0, 100} \cup ((maxVideoSize - ValidateMargin)
                             ..(maxVideoSize + ValidateMargin))]
    \cup {NullFile}

Null == "null"
NotValidated == "not validated"
SELECT_A_FILE == "Please select a video file"
SELECT_A_VALID_FILE == "Please select a valid video file"
FILE_TOO_LARGE ==
    "The file size exceeds 5GB (5000MB). Please upload a smaller file."

\* a size check that also rejects a file of exactly the limit
ValidateVideoFileInclusive(f) ==
    IF ~f.present THEN SELECT_A_FILE
    ELSE IF ~StartsWith(f.type, "video/") THEN SELECT_A_VALID_FILE
    ELSE IF f.size >= maxVideoSize THEN FILE_TOO_LARGE
    ELSE Null

\* validateVideoFile(file)
ValidateVideoFile(f) ==
    IF ~f.present THEN SELECT_A_FILE
    ELSE IF ~StartsWith(f.type, "video/") THEN SELECT_A_VALID_FILE
    ELSE IF f.size > maxVideoSize THEN FILE_TOO_LARGE
    ELSE Null

\* the earlier variants of uploadVideo are not running
NoVariants ==
    /\ dual = IdleLocals(0)
    /\ single = IdleLocals(0)

\* ------------------------------------------------ the axios instance
\* stored credentials ("" is an absent item), and the views of the app
Tokens == {"tokenA", "tokenB"}
LOGIN_PATH == "/login"
Paths == {LOGIN_PATH, "/dashboard"}

\* what error.response?.status can be for a rejected request: 0 stands for
\* an error without a response (network failure, timeout of 15000 ms)
ErrorStatuses == {0, 401, 403, 500}

\* the Authorization header of a request config
NoAuthorization == [scheme |-> "", credentials |-> ""]
Bearer(token) == [scheme |-> "Bearer", credentials |-> token]

\* request interceptor: if (token) config.headers.Authorization = `Bearer ${token}`
RequestInterceptor(token) ==
    IF token # "" THEN Bearer(token) ELSE NoAuthorization

\* a response interceptor that also treats 403 as unauthorized
IsUnauthorizedOrForbidden(status) == status \in {401, 403}

\* error.response?.status === 401
IsUnauthorized(status) == status = 401

\* window.location.pathname !== '/login'
ShouldRedirect(path) == path # LOGIN_PATH

\* a request config that went through the request interceptor
SentRequest(token) ==
    [authorization |-> RequestInterceptor(token), settled |-> "pending",
     status |-> 0]

\* the axios instance has not been used; nobody is logged in
NoHttpTraffic ==
    /\ auth_token = ""
    /\ pathname = LOGIN_PATH
    /\ hrefAssignments = 0
    /\ requests = <<>>

\* ------------------------------------------------------------------- Init
\* The page is loaded (PRIMARY_API_URL is fixed) and a file has been picked;
\* uploadVideo has not been called yet.
Init ==
    /\ PRIMARY_API_URL \in {PrimaryApiUrl(h) : h \in BOOLEAN}
    /\ file \in [size : 0..MaxFileSize]
    /\ pc = "idle"
    /\ chunks = 0
    /\ start = 0
    /\ baseUrl = ""
    /\ hasSwitchedToDirect = FALSE
    /\ response = NoResponse
    /\ timer = "none"
    /\ attempt = 0
    /\ error = NoError
    /\ lastProbe = "none"
    /\ headProbes = 0
    /\ exchanges = <<>>
    /\ calls = <<>>
    /\ candidate = [present |-> TRUE, type |-> "video/mp4", size |-> file.size]
    /\ validation = ValidateVideoFile(candidate)
    /\ peer = IdleLocals(0)
    /\ NoHttpTraffic
    /\ NoVariants

\* --------------------------------------------- pieces of the function body
\* Each piece runs up to the next await and fixes the next value of
\* pc, start, response, timer, attempt, error, lastProbe, headProbes,
\* exchanges, calls.  `response` is scoped to the try block of one iteration.

\* for (start = s; start < file.size; ...) { build formData, arm the timer,
\* await fetch(`${url}/upload`) }, or leave the loop and return
ForLoop(s, n, url, log, cs) ==
    /\ start' = s
    /\ response' = NoResponse
    /\ calls' = cs
    /\ UNCHANGED <<attempt, error, lastProbe, headProbes>>
    /\ IF s < file.size
       THEN /\ pc' = "fetch"
            /\ timer' = IF IsFinalChunk(s, n) THEN FINAL_CHUNK_TIMEOUT_MS
                                              ELSE CHUNK_TIMEOUT_MS
            /\ exchanges' = Append(log, Request(s, n, RequestUrl(url), FALSE))
       ELSE /\ pc' = "done"
            /\ timer' = "none"
            /\ exchanges' = log

\* a catch that starts storage polling whatever chunk failed
CatchAlwaysPolls(err, tm, log, cs) ==
    /\ start' = start
    /\ response' = NoResponse
    /\ timer' = tm
    /\ exchanges' = log
    /\ lastProbe' = lastProbe
    /\ pc' = "probe"
    /\ attempt' = 1
    /\ error' = err
    /\ headProbes' = headProbes + 1
    /\ calls' = cs

\* a catch that resets the progress display after reporting the error
CatchThenProgress(err, tm, log, cs) ==
    /\ start' = start
    /\ response' = NoResponse
    /\ timer' = tm
    /\ exchanges' = log
    /\ lastProbe' = lastProbe
    /\ IF IsFinalChunk(start, chunks)
       THEN /\ pc' = "probe"
            /\ attempt' = 1
            /\ error' = err
            /\ headProbes' = headProbes + 1
            /\ calls' = cs
       ELSE /\ pc' = "done"
            /\ calls' = cs \o <<OnError(err), OnProgress(Percent(0, 1))>>
            /\ UNCHANGED <<attempt, error, headProbes>>

\* catch (error) { if (isFinalChunk) { start polling } else { onError; return } }
Catch(err, tm, log, cs) ==
    /\ start' = start
    /\ response' = NoResponse
    /\ timer' = tm
    /\ exchanges' = log
    /\ lastProbe' = lastProbe
    /\ IF IsFinalChunk(start, chunks)
       THEN /\ pc' = "probe"
            /\ attempt' = 1
            /\ error' = err
            /\ headProbes' = headProbes + 1
            /\ calls' = cs
       ELSE /\ pc' = "done"
            /\ calls' = Append(cs, OnError(err))
            /\ UNCHANGED <<attempt, error, headProbes>>

\* the part of the try block after the `if (!response.ok)` statement:
\* report progress, and for the final chunk parse `response`
AfterOk(resp, log) ==
    LET cs1 == Append(calls, OnProgress(CurrentProgress(start)))
    IN  IF IsFinalChunk(start, chunks)
        THEN IF ~resp.body.json
             THEN Catch(SyntaxError, "none", log, cs1)
             ELSE IF resp.body.videoUrl # ""
                  THEN ForLoop(NextStart(start), chunks, baseUrl, log,
                               cs1 \o <<OnComplete(ResponseFileInfo(resp.body),
                                                   UsingFallback(resp.body)),
                                        OnProgress(Hundred)>>)
                  ELSE Catch(InvalidResponseError, "none", log, cs1)
        ELSE ForLoop(NextStart(start), chunks, baseUrl, log, cs1)

\* ---------------------------------------------------------------- actions
\* uploadVideo(file, onProgress, onComplete, onError) up to its first await
InvokeStep ==
    /\ pc = "idle"
    /\ chunks' = MathCeilDiv(file.size, chunkSize)
    /\ baseUrl' = PRIMARY_API_URL
    /\ hasSwitchedToDirect' = FALSE
    /\ ForLoop(0, MathCeilDiv(file.size, chunkSize), PRIMARY_API_URL,
               exchanges, calls)
    /\ UNCHANGED <<candidate, validation, peer, httpVars>>
    /\ UNCHANGED <<PRIMARY_API_URL, file>>

\* the first fetch of the iteration resolves with a response
FetchResolveStep(resp) ==
    /\ pc = "fetch"
    /\   LET log == Close(exchanges, Answered(resp, IsFinalChunk(start, chunks)))
         IN  IF ~ResponseOk(resp)
             THEN IF ShouldSwitch(resp)
                  THEN /\ baseUrl' = DIRECT_BACKEND_URL
                       /\ hasSwitchedToDirect' = TRUE
                       /\ response' = resp
                       /\ pc' = "retry"
                       /\ timer' = "none"
                       /\ exchanges' = Append(log,
                              Request(start, chunks, DIRECT_BACKEND_URL, TRUE))
                       /\ UNCHANGED <<start, attempt, error, lastProbe,
                                      headProbes, calls>>
                  ELSE /\ Catch(HttpError(resp), "none", log, calls)
                       /\ UNCHANGED <<baseUrl, hasSwitchedToDirect>>
             ELSE /\ AfterOk(resp, log)
                  /\ UNCHANGED <<baseUrl, hasSwitchedToDirect>>
    /\ UNCHANGED <<candidate, validation, peer, httpVars>>
    /\ UNCHANGED <<PRIMARY_API_URL, file, chunks>>

\* the first fetch rejects: the network failed
FetchRejectStep ==
    /\ pc = "fetch"
    /\ Catch(NetworkError, timer, Close(exchanges, Failed("network")), calls)
    /\ UNCHANGED <<candidate, validation, peer, httpVars>>
    /\ UNCHANGED <<PRIMARY_API_URL, file, chunks, baseUrl,
                   hasSwitchedToDirect>>

\* the timer of the chunk fires while its fetch is in flight:
\* controller.abort() rejects the fetch
TimeoutStep ==
    /\ pc = "fetch"
    /\ timer # "none"
    /\ Catch(AbortError, "none", Close(exchanges, Failed("abort")), calls)
    /\ UNCHANGED <<candidate, validation, peer, httpVars>>
    /\ UNCHANGED <<PRIMARY_API_URL, file, chunks, baseUrl,
                   hasSwitchedToDirect>>

\* a timer that was never cleared fires after its fetch has already failed
StaleTimeoutStep ==
    /\ pc \in {"probe", "done"}
    /\ timer # "none"
    /\ timer' = "none"
    /\ UNCHANGED <<candidate, validation, peer, httpVars>>
    /\ UNCHANGED <<PRIMARY_API_URL, file, pc, chunks, start, baseUrl,
                   hasSwitchedToDirect, response, attempt, error, lastProbe,
                   headProbes, exchanges, calls>>

\* the retry against the direct backend resolves with a response
RetryResolveStep(retryResponse) ==
    /\ pc = "retry"
    /\   LET log == Close(exchanges, Answered(retryResponse, IsFinalChunk(start, chunks)))
         IN  IF ~ResponseOk(retryResponse)
             THEN Catch(HttpError(retryResponse), timer, log, calls)
             ELSE AfterOk(response, log)
    /\ UNCHANGED <<candidate, validation, peer, httpVars>>
    /\ UNCHANGED <<PRIMARY_API_URL, file, chunks, baseUrl,
                   hasSwitchedToDirect>>

\* the retry rejects: the network failed
RetryRejectStep ==
    /\ pc = "retry"
    /\ Catch(NetworkError, timer, Close(exchanges, Failed("network")), calls)
    /\ UNCHANGED <<candidate, validation, peer, httpVars>>
    /\ UNCHANGED <<PRIMARY_API_URL, file, chunks, baseUrl,
                   hasSwitchedToDirect>>

\* a polling loop that falls out of its last attempt without reporting
ProbeAgainSilent(outcome) ==
    /\ lastProbe' = outcome
    /\ attempt' = attempt + 1
    /\ calls' = calls
    /\ IF attempt + 1 <= maxAttempts
       THEN /\ pc' = "probe"
            /\ headProbes' = headProbes + 1
       ELSE /\ pc' = "done"
            /\ headProbes' = headProbes

\* a HEAD probe did not confirm the object: wait delayMs, then either issue
\* the next probe or leave the polling loop and report the caught error
ProbeAgain(outcome) ==
    /\ lastProbe' = outcome
    /\ attempt' = attempt + 1
    /\ IF attempt + 1 <= maxAttempts
       THEN /\ pc' = "probe"
            /\ headProbes' = headProbes + 1
            /\ calls' = calls
       ELSE /\ pc' = "done"
            /\ headProbes' = headProbes
            /\ calls' = Append(calls, OnError(error))

\* a confirmation that reports the recovered file as a primary delivery
ProbeConfirmedAsPrimary ==
    /\ lastProbe' = "ok"
    /\ pc' = "done"
    /\ calls' = calls \o <<OnComplete(MinioFileInfo, FALSE), OnProgress(Hundred)>>
    /\ UNCHANGED <<attempt, headProbes>>

\* headResp.ok: onComplete(fileInfo, true); onProgress(100); return
ProbeConfirmed ==
    /\ lastProbe' = "ok"
    /\ pc' = "done"
    /\ calls' = calls \o <<OnComplete(MinioFileInfo, TRUE), OnProgress(Hundred)>>
    /\ UNCHANGED <<attempt, headProbes>>

\* the HEAD probe resolves
ProbeResolveStep ==
    /\ pc = "probe"
    /\ \E ok \in BOOLEAN :
         IF ok THEN ProbeConfirmed ELSE ProbeAgain("notok")
    /\ UNCHANGED <<candidate, validation, peer, httpVars>>
    /\ UNCHANGED <<PRIMARY_API_URL, file, chunks, start, baseUrl,
                   hasSwitchedToDirect, response, timer, error, exchanges>>

\* the HEAD probe rejects; the error is ignored
ProbeRejectStep ==
    /\ pc = "probe"
    /\ ProbeAgain("threw")
    /\ UNCHANGED <<candidate, validation, peer, httpVars>>
    /\ UNCHANGED <<PRIMARY_API_URL, file, chunks, start, baseUrl,
                   hasSwitchedToDirect, response, timer, error, exchanges>>

\* ------------------------------------------- the actions of one invocation
\* Each step of uploadVideo with the environment's answer drawn, the
\* closures of the earlier variants left alone.
Invoke == InvokeStep /\ UNCHANGED variantVars

FetchResolve ==
    /\ \E resp \in Responses : FetchResolveStep(resp)
    /\ UNCHANGED variantVars

FetchReject == FetchRejectStep /\ UNCHANGED variantVars

Timeout == TimeoutStep /\ UNCHANGED variantVars

StaleTimeout == StaleTimeoutStep /\ UNCHANGED variantVars

RetryResolve ==
    /\ \E retryResponse \in Responses : RetryResolveStep(retryResponse)
    /\ UNCHANGED variantVars

RetryReject == RetryRejectStep /\ UNCHANGED variantVars

ProbeResolve == ProbeResolveStep /\ UNCHANGED variantVars

ProbeReject == ProbeRejectStep /\ UNCHANGED variantVars

Next ==
    \/ Invoke
    \/ FetchResolve
    \/ FetchReject
    \/ Timeout
    \/ StaleTimeout
    \/ RetryResolve
    \/ RetryReject
    \/ ProbeResolve
    \/ ProbeReject

Spec == Init /\ [][Next]_vars

\* ----------------------------------------- validateVideoFile on its own
\* A candidate file has been picked; nothing has been uploaded.
InitValidate ==
    /\ candidate \in Candidates
    /\ validation = NotValidated
    /\ PRIMARY_API_URL = PrimaryApiUrl(TRUE)
    /\ file = [size |-> 0]
    /\ pc = "idle"
    /\ chunks = 0
    /\ start = 0
    /\ baseUrl = ""
    /\ hasSwitchedToDirect = FALSE
    /\ response = NoResponse
    /\ timer = "none"
    /\ attempt = 0
    /\ error = NoError
    /\ lastProbe = "none"
    /\ headProbes = 0
    /\ exchanges = <<>>
    /\ calls = <<>>
    /\ peer = IdleLocals(0)
    /\ NoHttpTraffic
    /\ NoVariants

\* the caller runs validateVideoFile(candidate)
Validate ==
    /\ validation = NotValidated
    /\ validation' = ValidateVideoFile(candidate)
    /\ UNCHANGED <<PRIMARY_API_URL, file, pc, chunks, start, baseUrl,
                   hasSwitchedToDirect, response, timer, attempt, error,
                   lastProbe, headProbes, exchanges, calls, candidate, peer,
                   httpVars, variantVars>>

NextValidate == Validate

SpecValidate == InitValidate /\ [][NextValidate]_vars

\* ------------------------------------------- the axios instance on its own
\* The page is loaded on some view, with or without a stored credential;
\* no upload is going on.
InitAxios ==
    /\ auth_token \in Tokens \cup {""}
    /\ pathname \in Paths
    /\ hrefAssignments = 0
    /\ requests = <<>>
    /\ PRIMARY_API_URL = PrimaryApiUrl(TRUE)
    /\ file = [size |-> 0]
    /\ pc = "idle"
    /\ chunks = 0
    /\ start = 0
    /\ baseUrl = ""
    /\ hasSwitchedToDirect = FALSE
    /\ response = NoResponse
    /\ timer = "none"
    /\ attempt = 0
    /\ error = NoError
    /\ lastProbe = "none"
    /\ headProbes = 0
    /\ exchanges = <<>>
    /\ calls = <<>>
    /\ candidate = NullFile
    /\ validation = NotValidated
    /\ peer = IdleLocals(0)
    /\ NoVariants

\* the app stores a credential: localStorage.setItem('auth_token', token)
StoreToken ==
    /\ \E token \in Tokens : auth_token' = token
    /\ UNCHANGED <<pathname, hrefAssignments, requests>>
    /\ UNCHANGED uploadVars
    /\ UNCHANGED variantVars

\* the router shows another view
Navigate ==
    /\ \E path \in Paths : path # pathname /\ pathname' = path
    /\ UNCHANGED <<auth_token, hrefAssignments, requests>>
    /\ UNCHANGED uploadVars
    /\ UNCHANGED variantVars

\* a component sends a request: the request interceptor runs on its config
SendRequest ==
    /\ Len(requests) < MaxRequests
    /\ requests' = Append(requests, SentRequest(auth_token))
    /\ UNCHANGED <<auth_token, pathname, hrefAssignments>>
    /\ UNCHANGED uploadVars
    /\ UNCHANGED variantVars

\* a 2xx response arrives: (response) => response
ResponseFulfilled ==
    /\ \E k \in DOMAIN requests :
          /\ requests[k].settled = "pending"
          /\ requests' = [requests EXCEPT ![k].settled = "fulfilled",
                                          ![k].status = 200]
    /\ UNCHANGED <<auth_token, pathname, hrefAssignments>>
    /\ UNCHANGED uploadVars
    /\ UNCHANGED variantVars

\* the request fails: (error) => { if 401 {...}; return Promise.reject(error) }
ResponseRejected ==
    /\ \E k \in DOMAIN requests, status \in ErrorStatuses :
          /\ requests[k].settled = "pending"
          /\ requests' = [requests EXCEPT ![k].settled = "rejected",
                                          ![k].status = status]
          /\ IF IsUnauthorized(status)
             THEN /\ auth_token' = ""
                  /\ IF ShouldRedirect(pathname)
                     THEN /\ pathname' = LOGIN_PATH
                          /\ hrefAssignments' = hrefAssignments + 1
                     ELSE UNCHANGED <<pathname, hrefAssignments>>
             ELSE UNCHANGED <<auth_token, pathname, hrefAssignments>>
    /\ UNCHANGED uploadVars
    /\ UNCHANGED variantVars

NextAxios ==
    \/ StoreToken
    \/ Navigate
    \/ SendRequest
    \/ ResponseFulfilled
    \/ ResponseRejected

SpecAxios == InitAxios /\ [][NextAxios]_vars

\* --------------------------- the dual-endpoint variant without recovery
\* uploadVideo of src/unnamed/part_001 lines 37-149, as a function on the
\* closure c of its invocation; the File argument is `file`.

\* for (start = s; start < file.size; ...) { formData, timer, await fetch }
DualForLoop(c, s, log, cs) ==
    IF s < file.size
    THEN [c EXCEPT !.start = s, !.response = NoResponse, !.calls = cs,
                   !.pc = "fetch",
                   !.timer = IF IsFinalChunk(s, c.chunks)
                             THEN FINAL_CHUNK_TIMEOUT_MS ELSE CHUNK_TIMEOUT_MS,
                   !.exchanges = Append(log, Request(s, c.chunks,
                                                    RequestUrl(c.baseUrl), FALSE))]
    ELSE [c EXCEPT !.start = s, !.response = NoResponse, !.calls = cs,
                   !.pc = "done", !.timer = "none", !.exchanges = log]

\* catch (error) { onError(error); return }
DualCatch(c, err, tm, log, cs) ==
    [c EXCEPT !.response = NoResponse, !.timer = tm, !.exchanges = log,
              !.pc = "done", !.calls = Append(cs, OnError(err))]

\* progress, and for the final chunk the parsing of `response`
DualAfterOk(c, resp, log) ==
    LET cs1 == Append(c.calls, OnProgress(CurrentProgress(c.start)))
    IN  IF IsFinalChunk(c.start, c.chunks)
        THEN IF ~resp.body.json
             THEN DualCatch(c, SyntaxError, "none", log, cs1)
             ELSE IF resp.body.videoUrl # ""
                  THEN DualForLoop(c, NextStart(c.start), log,
                           cs1 \o <<OnComplete(ResponseFileInfo(resp.body),
                                               UsingFallback(resp.body)),
                                    OnProgress(Hundred)>>)
                  ELSE DualCatch(c, InvalidResponseError, "none", log, cs1)
        ELSE DualForLoop(c, NextStart(c.start), log, cs1)

\* !hasSwitchedToDirect && PRIMARY_API_URL === "/api" && (504 || 502)
DualShouldSwitch(c, resp) ==
    /\ ~c.hasSwitchedToDirect
    /\ PRIMARY_API_URL = PROXY_URL
    /\ (resp.status = 504 \/ resp.status = 502)

\* the call up to the first await
DualInvoke(c) ==
    DualForLoop([c EXCEPT !.chunks = MathCeilDiv(file.size, chunkSize),
                          !.baseUrl = PRIMARY_API_URL,
                          !.hasSwitchedToDirect = FALSE],
                0, c.exchanges, c.calls)

\* the first fetch of the iteration resolves with resp
DualFetchResolve(c, resp) ==
    LET log == Close(c.exchanges, Answered(resp, IsFinalChunk(c.start, c.chunks)))
    IN  IF ~ResponseOk(resp)
        THEN IF DualShouldSwitch(c, resp)
             THEN [c EXCEPT !.baseUrl = DIRECT_BACKEND_URL,
                            !.hasSwitchedToDirect = TRUE,
                            !.response = resp,
                            !.pc = "retry",
                            !.timer = "none",
                            !.exchanges = Append(log,
                                Request(c.start, c.chunks, DIRECT_BACKEND_URL, TRUE))]
             ELSE DualCatch(c, HttpError(resp), "none", log, c.calls)
        ELSE DualAfterOk(c, resp, log)

\* the first fetch rejects
DualFetchReject(c) ==
    DualCatch(c, NetworkError, c.timer, Close(c.exchanges, Failed("network")),
              c.calls)

\* the timer of the chunk aborts the first fetch
DualTimeout(c) ==
    DualCatch(c, AbortError, "none", Close(c.exchanges, Failed("abort")), c.calls)

\* the retry against the direct backend resolves with retryResponse
DualRetryResolve(c, retryResponse) ==
    LET log == Close(c.exchanges,
                     Answered(retryResponse, IsFinalChunk(c.start, c.chunks)))
    IN  IF ~ResponseOk(retryResponse)
        THEN DualCatch(c, HttpError(retryResponse), c.timer, log, c.calls)
        ELSE DualAfterOk(c, c.response, log)

\* the retry rejects
DualRetryReject(c) ==
    DualCatch(c, NetworkError, c.timer, Close(c.exchanges, Failed("network")),
              c.calls)

\* ------------------------------------------- the single-endpoint variant
\* uploadVideo of src/unnamed/part_001 lines 203-290.

\* const API_URL, computed from the host name like PRIMARY_API_URL
API_URL == PRIMARY_API_URL

\* for (start = s; start < file.size; ...) { formData, timer, await fetch }
SingleForLoop(c, s, log, cs) ==
    IF s < file.size
    THEN [c EXCEPT !.start = s, !.response = NoResponse, !.calls = cs,
                   !.pc = "fetch",
                   !.timer = IF IsFinalChunk(s, c.chunks)
                             THEN FINAL_CHUNK_TIMEOUT_MS ELSE CHUNK_TIMEOUT_MS,
                   !.exchanges = Append(log, Request(s, c.chunks, API_URL, FALSE))]
    ELSE [c EXCEPT !.start = s, !.response = NoResponse, !.calls = cs,
                   !.pc = "done", !.timer = "none", !.exchanges = log]

\* catch (error) { onError(error); return }
SingleCatch(c, err, tm, log, cs) ==
    [c EXCEPT !.response = NoResponse, !.timer = tm, !.exchanges = log,
              !.pc = "done", !.calls = Append(cs, OnError(err))]

\* progress, and for the final chunk the parsing of `response`
SingleAfterOk(c, resp, log) ==
    LET cs1 == Append(c.calls, OnProgress(CurrentProgress(c.start)))
    IN  IF IsFinalChunk(c.start, c.chunks)
        THEN IF ~resp.body.json
             THEN SingleCatch(c, SyntaxError, "none", log, cs1)
             ELSE IF resp.body.videoUrl # ""
                  THEN SingleForLoop(c, NextStart(c.start), log,
                           cs1 \o <<OnComplete(ResponseFileInfo(resp.body),
                                               UsingFallback(resp.body)),
                                    OnProgress(Hundred)>>)
                  ELSE SingleCatch(c, InvalidResponseError, "none", log, cs1)
        ELSE SingleForLoop(c, NextStart(c.start), log, cs1)

\* the call up to the first await
SingleInvoke(c) ==
    SingleForLoop([c EXCEPT !.chunks = MathCeilDiv(file.size, chunkSize)],
                  0, c.exchanges, c.calls)

\* the fetch of the iteration resolves with resp
SingleFetchResolve(c, resp) ==
    LET log == Close(c.exchanges, Answered(resp, IsFinalChunk(c.start, c.chunks)))
    IN  IF ~ResponseOk(resp)
        THEN SingleCatch(c, HttpError(resp), "none", log, c.calls)
        ELSE SingleAfterOk(c, resp, log)

\* the fetch rejects
SingleFetchReject(c) ==
    SingleCatch(c, NetworkError, c.timer, Close(c.exchanges, Failed("network")),
                c.calls)

\* the timer of the chunk aborts the fetch
SingleTimeout(c) ==
    SingleCatch(c, AbortError, "none", Close(c.exchanges, Failed("abort")),
                c.calls)

\* ------------------------------------------ the three variants side by side
\* The three variants of uploadVideo are called on the same file and meet
\* the same network: the k-th POST exchange has the same outcome for every
\* variant that issues it.  The variables hold the closure of the variant
\* with storage recovery.
InitVariants ==
    /\ PRIMARY_API_URL \in {PrimaryApiUrl(h) : h \in BOOLEAN}
    /\ file \in [size : 0..VariantFileSize]
    /\ pc = "idle"
    /\ chunks = 0
    /\ start = 0
    /\ baseUrl = ""
    /\ hasSwitchedToDirect = FALSE
    /\ response = NoResponse
    /\ timer = "none"
    /\ attempt = 0
    /\ error = NoError
    /\ lastProbe = "none"
    /\ headProbes = 0
    /\ exchanges = <<>>
    /\ calls = <<>>
    /\ candidate = [present |-> TRUE, type |-> "video/mp4", size |-> file.size]
    /\ validation = ValidateVideoFile(candidate)
    /\ peer = IdleLocals(0)
    /\ NoHttpTraffic
    /\ dual = IdleLocals(file.size)
    /\ single = IdleLocals(file.size)

\* the three variants are called
InvokeAll ==
    /\ InvokeStep
    /\ dual' = DualInvoke(dual)
    /\ single' = SingleInvoke(single)

\* the exchange in flight is answered
AnswerAll ==
    \E resp \in Responses :
       /\ \/ FetchResolveStep(resp)
          \/ RetryResolveStep(resp)
       /\ dual' = CASE dual.pc = "fetch" -> DualFetchResolve(dual, resp)
                    [] dual.pc = "retry" -> DualRetryResolve(dual, resp)
                    [] OTHER -> dual
       /\ single' = IF single.pc = "fetch"
                    THEN SingleFetchResolve(single, resp) ELSE single

\* the exchange in flight fails on the network
RejectAll ==
    /\ \/ FetchRejectStep
       \/ RetryRejectStep
    /\ dual' = CASE dual.pc = "fetch" -> DualFetchReject(dual)
                 [] dual.pc = "retry" -> DualRetryReject(dual)
                 [] OTHER -> dual
    /\ single' = IF single.pc = "fetch" THEN SingleFetchReject(single)
                                        ELSE single

\* the deadline of the chunk in flight passes
TimeoutAll ==
    /\ TimeoutStep
    /\ dual' = IF dual.pc = "fetch" THEN DualTimeout(dual) ELSE dual
    /\ single' = IF single.pc = "fetch" THEN SingleTimeout(single) ELSE single

\* the variant with storage recovery goes on alone: HEAD probes (followed
\* for VariantMaxProbes probes) and stale timers
Recover ==
    /\ \/ ProbeResolveStep
       \/ ProbeRejectStep
       \/ StaleTimeoutStep
    /\ headProbes' <= VariantMaxProbes
    /\ UNCHANGED variantVars

NextVariants ==
    \/ InvokeAll
    \/ AnswerAll
    \/ RejectAll
    \/ TimeoutAll
    \/ Recover

SpecVariants == InitVariants /\ [][NextVariants]_vars

\* ------------------------------------------- two concurrent invocations
\* uploadVideo is called for two files.  The variables hold the closure of
\* the invocation whose continuation runs next; peer holds the closure of
\* the other one, suspended at its await.
InitPair ==
    /\ PRIMARY_API_URL \in {PrimaryApiUrl(h) : h \in BOOLEAN}
    /\ file = [size |-> PairFileSize]
    /\ pc = "idle"
    /\ chunks = 0
    /\ start = 0
    /\ baseUrl = ""
    /\ hasSwitchedToDirect = FALSE
    /\ response = NoResponse
    /\ timer = "none"
    /\ attempt = 0
    /\ error = NoError
    /\ lastProbe = "none"
    /\ headProbes = 0
    /\ exchanges = <<>>
    /\ calls = <<>>
    /\ candidate = [present |-> TRUE, type |-> "video/mp4", size |-> file.size]
    /\ validation = ValidateVideoFile(candidate)
    /\ peer = IdleLocals(PairFileSize + 1)
    /\ NoHttpTraffic
    /\ NoVariants

\* the event loop turns to the other invocation: the running closure is
\* suspended and the other one is resumed
Resume ==
    /\ peer' = Locals
    /\ file' = peer.file
    /\ pc' = peer.pc
    /\ chunks' = peer.chunks
    /\ start' = peer.start
    /\ baseUrl' = ClosureBaseUrl(peer)
    /\ hasSwitchedToDirect' = peer.hasSwitchedToDirect
    /\ response' = peer.response
    /\ timer' = peer.timer
    /\ attempt' = peer.attempt
    /\ error' = peer.error
    /\ lastProbe' = peer.lastProbe
    /\ headProbes' = peer.headProbes
    /\ exchanges' = peer.exchanges
    /\ calls' = peer.calls
    /\ UNCHANGED <<PRIMARY_API_URL, candidate, validation, httpVars,
                   variantVars>>

\* In runs of two invocations the servers answer with plain bodies: JSON or
\* not, with or without a (remote) file.videoUrl, without message and without
\* error text.
PlainAnswers ==
    /\ response.body.error = ""
    /\ response.body.message = ""
    /\ response.body.videoUrl \in {"", "https://storage/video.mp4"}
    /\ \A k \in DOMAIN exchanges : exchanges[k].outcome.error = ""
    /\ \A i \in DOMAIN calls :
          /\ calls[i].error.message # "Disk quota exceeded"
          /\ calls[i].fileInfo \in
                {NoInfo, MinioFileInfo,
                 [videoUrl |-> "https://storage/video.mp4", message |-> ""]}

\* a continuation of the running invocation; storage polling is followed
\* for PairMaxProbes probes
Continue == Next /\ headProbes' <= PairMaxProbes /\ PlainAnswers'

NextPair == Continue \/ Resume

SpecPair == InitPair /\ [][NextPair]_vars

TypeOK ==
    /\ pc \in {"idle", "fetch", "retry", "probe", "done"}
    /\ attempt \in 0..(maxAttempts + 1)
    /\ headProbes \in 0..maxAttempts
    /\ hasSwitchedToDirect \in BOOLEAN

\* ------------------------------------------------- vocabulary of the claims
CallsOf(fn) == {i \in DOMAIN calls : calls[i].fn = fn}
TerminalCalls == CallsOf("onComplete") \cup CallsOf("onError")
Finished == pc = "done"

InFlight == {k \in DOMAIN exchanges : exchanges[k].outcome.kind = "pending"}
Succeeded(x) == x.outcome.kind = "response" /\ x.outcome.status \in 200..299
GatewayFailure(x) ==
    x.outcome.kind = "response" /\ x.outcome.status \in {502, 504}
HttpFailure(x) ==
    x.outcome.kind = "response" /\ x.outcome.status \notin 200..299
FailedOutright(x) == x.outcome.kind \in {"network", "abort"}
HasExchange == Len(exchanges) > 0
LastExchange == exchanges[Len(exchanges)]
FirstAttempts == SelectSeq(exchanges, LAMBDA x : ~x.retry)
Retries == {k \in DOMAIN exchanges : exchanges[k].retry}

RECURSIVE SumBytes(_)
SumBytes(xs) == IF xs = <<>> THEN 0 ELSE Head(xs).bytes + SumBytes(Tail(xs))

\* ---------------------------------------------------------------- claims

\* C1: when an invocation of uploadVideo has finished, exactly one of
\* onComplete / onError has been called, and exactly once - for every file
\* size, the empty file included.
C1_ExactlyOneTerminalCallback ==
    Finished => Cardinality(TerminalCalls) = 1

\* C2: chunks are sent one at a time in increasing index order from 0: at
\* most one POST exchange is in flight, an exchange is issued only when all
\* earlier ones have been answered or failed, and the request for chunk i+1
\* follows a successful exchange for chunk i.
C2_SequentialInOrder ==
    /\ Cardinality(InFlight) <= 1
    /\ InFlight \subseteq {Len(exchanges)}
    /\ HasExchange => exchanges[1].chunk = 0 /\ ~exchanges[1].retry
    /\ \A k \in 1..(Len(exchanges) - 1) :
          \/ /\ exchanges[k + 1].chunk = exchanges[k].chunk + 1
             /\ Succeeded(exchanges[k])
          \/ /\ exchanges[k + 1].chunk = exchanges[k].chunk
             /\ exchanges[k + 1].retry
             /\ ~exchanges[k].retry
             /\ ~Succeeded(exchanges[k])

C2_Witness ==
    /\ Len(exchanges) >= 4
    /\ Retries # {}
    /\ LastExchange.chunk = 2
    /\ InFlight = {Len(exchanges)}

\* C3: the number of chunks is ceil(S / C); the chunk indices sent are
\* 0, 1, 2, ... without gaps and reach count-1 when the upload runs through;
\* every request carries the same totalChunks; the chunk lengths sent add up
\* to the bytes of the file they cover, and to S when all chunks were sent.
C3_Partition ==
    pc # "idle" =>
      /\ chunks * chunkSize >= file.size
      /\ (chunks - 1) * chunkSize < file.size
      /\ chunks >= 0
      /\ Len(FirstAttempts) <= chunks
      /\ \A k \in DOMAIN FirstAttempts : FirstAttempts[k].chunk = k - 1
      /\ \A k \in DOMAIN exchanges :
            /\ exchanges[k].totalChunks = chunks
            /\ exchanges[k].bytes \in 1..chunkSize
      /\ \A k \in Retries : k > 1 /\ exchanges[k].bytes = exchanges[k - 1].bytes
      /\ SumBytes(FirstAttempts) = Min(file.size, Len(FirstAttempts) * chunkSize)
      /\ Len(FirstAttempts) = chunks => SumBytes(FirstAttempts) = file.size
      /\ CallsOf("onComplete") # {} => Len(FirstAttempts) = chunks

C3_Witness ==
    /\ Finished
    /\ CallsOf("onComplete") # {}
    /\ chunks = 3
    /\ Len(FirstAttempts) = 3
    /\ LastExchange.bytes < chunkSize
    /\ SumBytes(FirstAttempts) = file.size

\* C4: the endpoint switches from primary to direct at most once and never
\* back: after a request to the direct backend every later upload request
\* goes to the direct backend.
C4_SwitchOnceNeverBack ==
    /\ \A j, k \in DOMAIN exchanges :
          j < k /\ exchanges[j].url = DIRECT_BACKEND_URL
            => exchanges[k].url = DIRECT_BACKEND_URL
    /\ \A k \in DOMAIN exchanges :
          exchanges[k].url \in {PRIMARY_API_URL, DIRECT_BACKEND_URL}
    /\ Cardinality({k \in 1..(Len(exchanges) - 1) :
                      exchanges[k].url # exchanges[k + 1].url}) <= 1
    /\ hasSwitchedToDirect => baseUrl = DIRECT_BACKEND_URL

C4_Witness ==
    /\ Len(exchanges) >= 3
    /\ exchanges[1].url = PROXY_URL
    /\ exchanges[2].url = DIRECT_BACKEND_URL
    /\ exchanges[3].url = DIRECT_BACKEND_URL
    /\ exchanges[3].chunk = 1

\* C5: a non-final chunk answered 502 or 504 by the same-origin proxy is
\* retried exactly once - same index, same bytes - against the direct
\* backend, and from then on hasSwitchedToDirect is true.
C5_GatewayFailureRetriesOnce ==
    \A k \in DOMAIN exchanges :
       ( /\ ~exchanges[k].final
         /\ exchanges[k].url = PROXY_URL
         /\ GatewayFailure(exchanges[k]) )
       => /\ hasSwitchedToDirect
          /\ k < Len(exchanges)
          /\ exchanges[k + 1].retry
          /\ exchanges[k + 1].url = DIRECT_BACKEND_URL
          /\ exchanges[k + 1].chunk = exchanges[k].chunk
          /\ exchanges[k + 1].bytes = exchanges[k].bytes
          /\ exchanges[k + 1].totalChunks = exchanges[k].totalChunks
          /\ Retries = {k + 1}

C5_Witness ==
    /\ Finished
    /\ Len(exchanges) >= 4
    /\ ~exchanges[2].final
    /\ exchanges[2].url = PROXY_URL
    /\ exchanges[2].outcome.status = 502
    /\ exchanges[3].retry
    /\ Succeeded(exchanges[3])
    /\ hasSwitchedToDirect

\* C6: a 502/504 answer to a chunk sent after the endpoint switch ends the
\* task at once: no further switch, retry, POST or HEAD exchange; onError is
\* called and onComplete is not.
C6_GatewayFailureAfterSwitchFailsAtOnce ==
    \A k \in DOMAIN exchanges :
       ( /\ ~exchanges[k].retry
         /\ exchanges[k].url = DIRECT_BACKEND_URL
         /\ GatewayFailure(exchanges[k]) )
       => /\ k = Len(exchanges)
          /\ headProbes = 0
          /\ CallsOf("onError") # {}
          /\ CallsOf("onComplete") = {}

\* C7: when the exchange of the final chunk fails outright (network error or
\* timeout abort) the client polls the storage URL, and once a HEAD probe
\* answers 2xx within the attempt budget the task has completed:
\* onComplete was called once with usingFallback = true, onError was not
\* called, and the last progress report is 100.
C7_RecoveredByStorageProbe ==
    ( /\ HasExchange
      /\ LastExchange.final
      /\ FailedOutright(LastExchange) )
    => /\ headProbes \in 1..maxAttempts
       /\ lastProbe = "ok" =>
            /\ Finished
            /\ Cardinality(CallsOf("onComplete")) = 1
            /\ \A i \in CallsOf("onComplete") : calls[i].usingFallback = TRUE
            /\ CallsOf("onError") = {}
            /\ calls[Len(calls)] = OnProgress(Hundred)

C7_Witness ==
    /\ HasExchange
    /\ LastExchange.final
    /\ LastExchange.outcome.kind = "abort"
    /\ lastProbe = "ok"
    /\ headProbes = maxAttempts
    /\ CallsOf("onComplete") # {}

\* C8: when the exchange of the final chunk fails outright and no HEAD
\* probe answers 2xx, onComplete is never called, and once all maxAttempts
\* probes are used up the task ends with exactly one onError call that
\* carries the caught error.
C8_ExhaustedProbesFail ==
    ( /\ HasExchange
      /\ LastExchange.final
      /\ FailedOutright(LastExchange)
      /\ lastProbe # "ok" )
    => /\ CallsOf("onComplete") = {}
       /\ Finished <=> attempt > maxAttempts
       /\ Finished =>
            /\ headProbes = maxAttempts
            /\ Cardinality(CallsOf("onError")) = 1
            /\ \A i \in CallsOf("onError") :
                  calls[i].error \in {NetworkError, AbortError}
       /\ ~Finished => pc = "probe" /\ CallsOf("onError") = {}

C8_Witness ==
    /\ Finished
    /\ HasExchange
    /\ LastExchange.final
    /\ LastExchange.outcome.kind = "network"
    /\ lastProbe = "threw"
    /\ headProbes = maxAttempts
    /\ CallsOf("onError") # {}

\* C9: HEAD probes are issued only after the exchange of the final chunk
\* failed outright; a final chunk answered with a non-success status gets
\* no HEAD probe and the upload ends with onError.
C9_PollingOnlyAfterOutrightFailure ==
    /\ headProbes > 0 =>
          HasExchange /\ LastExchange.final /\ FailedOutright(LastExchange)
    /\ ( /\ HasExchange
         /\ LastExchange.final
         /\ HttpFailure(LastExchange) )
       => /\ headProbes = 0
          /\ CallsOf("onError") # {}

\* C10: a 2xx answer to the final chunk whose body has no file.videoUrl
\* makes the task fail: onComplete is never called, and the finished task
\* has called onError.
C10_MissingVideoUrlFails ==
    ( /\ HasExchange
      /\ LastExchange.final
      /\ ~LastExchange.retry
      /\ Succeeded(LastExchange)
      /\ ~LastExchange.outcome.hasVideoUrl )
    => /\ CallsOf("onComplete") = {}
       /\ Finished => CallsOf("onError") # {}

\* ------------------------------------------ vocabulary of progress claims
ProgressCalls == SelectSeq(calls, LAMBDA c : c.fn = "onProgress")
\* p <= q for exact fractions
LeqPercent(p, q) == p.num * q.den <= q.num * p.den
EqPercent(p, q) == p.num * q.den = q.num * p.den
\* exchanges that were acknowledged with a 2xx status, in order
Acked == SelectSeq(exchanges, LAMBDA x : Succeeded(x))
\* bytes of chunks 0..k-1
BytesThrough(k) == SumBytes(SubSeq(FirstAttempts, 1, k))

\* C11: every value passed to onProgress lies between 0 and 100, and the
\* values are non-decreasing in call order, on every path.
C11_ProgressBoundedMonotone ==
    /\ \A i \in DOMAIN ProgressCalls :
          /\ ProgressCalls[i].progress.den > 0
          /\ ProgressCalls[i].progress.num >= 0
          /\ LeqPercent(ProgressCalls[i].progress, Hundred)
    /\ \A i, j \in DOMAIN ProgressCalls :
          i < j => LeqPercent(ProgressCalls[i].progress, ProgressCalls[j].progress)

C11_Witness ==
    /\ Finished
    /\ Retries # {}
    /\ lastProbe = "ok"
    /\ Len(ProgressCalls) >= 3
    /\ LastExchange.bytes < chunkSize
    /\ FailedOutright(LastExchange)

\* C12: the k-th progress report, made when chunk k-1 is acknowledged, is
\* 100 * (bytes of chunks 0..k-1) / S, never above 100, and the report for
\* the final chunk is exactly 100.
C12_ProgressAfterChunk ==
    /\ Len(ProgressCalls) >= Len(Acked)
    /\ \A k \in DOMAIN Acked :
          /\ Acked[k].chunk = k - 1
          /\ EqPercent(ProgressCalls[k].progress,
                       Percent(100 * BytesThrough(k), file.size))
          /\ LeqPercent(ProgressCalls[k].progress, Hundred)
          /\ Acked[k].final => EqPercent(ProgressCalls[k].progress, Hundred)

C12_Witness ==
    /\ Len(Acked) = 3
    /\ Acked[3].final
    /\ Acked[3].bytes < chunkSize
    /\ Acked[2].retry
    /\ EqPercent(ProgressCalls[3].progress, Hundred)

\* C13 (as claimed): no onProgress call is made after onComplete or onError.
C13_NoProgressAfterTerminal ==
    \A i \in TerminalCalls : \A j \in CallsOf("onProgress") : j < i

\* C13 (amended): no call at all follows onError; onComplete is followed by
\* exactly one call, onProgress(100), and by nothing else.
C13_OnlyFinalHundredAfterTerminal ==
    /\ \A i \in CallsOf("onError") : i = Len(calls)
    /\ \A i \in CallsOf("onComplete") :
          /\ i = Len(calls) - 1
          /\ calls[Len(calls)] = OnProgress(Hundred)

C13_Witness ==
    /\ Finished
    /\ CallsOf("onError") # {}
    /\ Len(ProgressCalls) >= 1
    /\ ~LastExchange.final

\* C14: while a POST exchange is in flight - the retry against the direct
\* backend included - the deadline of its chunk is armed: the short one for
\* a non-final chunk, the long one for the final chunk.
C14_EveryExchangeHasDeadline ==
    InFlight # {} =>
       timer = IF LastExchange.final THEN FINAL_CHUNK_TIMEOUT_MS
                                     ELSE CHUNK_TIMEOUT_MS

\* C15: when onComplete is called with the file record of a final-chunk
\* response, usingFallback is true exactly when the message mentions local
\* storage or fallback, or the videoUrl is a loopback address - with or
\* without a message.
C15_FallbackClassification ==
    \A i \in CallsOf("onComplete") :
       calls[i].fileInfo # MinioFileInfo =>
          ( calls[i].usingFallback
            <=> \/ Includes(calls[i].fileInfo.message, "local storage")
                \/ Includes(calls[i].fileInfo.message, "fallback")
                \/ Includes(calls[i].fileInfo.videoUrl, "localhost")
                \/ Includes(calls[i].fileInfo.videoUrl, "127.0.0.1") )

\* C16: validateVideoFile returns null exactly for a present file whose
\* type is a video type and whose size is at most 5000 MiB (0 bytes and
\* exactly 5000 MiB included); a missing file, then a non-video type, then
\* an oversized file are rejected in that order, each with its message; the
\* call issues no request and changes no upload state.
C16_ValidateVideoFile ==
    validation # NotValidated =>
       /\ validation = Null <=>
             /\ candidate.present
             /\ candidate.type \in {"video/mp4", "video/webm"}
             /\ candidate.size <= 5000
       /\ ~candidate.present => validation = SELECT_A_FILE
       /\ ( /\ candidate.present
            /\ candidate.type \notin {"video/mp4", "video/webm"} )
          => validation = SELECT_A_VALID_FILE
       /\ ( /\ candidate.present
            /\ candidate.type \in {"video/mp4", "video/webm"}
            /\ candidate.size > 5000 )
          => validation = FILE_TOO_LARGE
       /\ pc = "idle" /\ exchanges = <<>> /\ headProbes = 0 /\ calls = <<>>

C16_Witness ==
    /\ validation = Null
    /\ candidate.present
    /\ candidate.type = "video/mp4"
    /\ candidate.size = 5000

\* C17: a request goes to the direct backend only after an earlier request
\* of the invocation to the same-origin proxy was answered 502 or 504; with
\* the local development address as primary, and after failures of any
\* other kind, no request goes to the direct backend.
C17_DirectOnlyAfterProxyGatewayFailure ==
    /\ \A k \in DOMAIN exchanges :
          exchanges[k].url = DIRECT_BACKEND_URL
            => \E j \in 1..(k - 1) :
                  /\ exchanges[j].url = PROXY_URL
                  /\ GatewayFailure(exchanges[j])
    /\ PRIMARY_API_URL = LOCAL_URL
          => \A k \in DOMAIN exchanges : exchanges[k].url = LOCAL_URL
    /\ (\A k \in DOMAIN exchanges : ~GatewayFailure(exchanges[k]))
          => \A k \in DOMAIN exchanges : exchanges[k].url = PRIMARY_API_URL

C17_Witness ==
    /\ Finished
    /\ PRIMARY_API_URL = LOCAL_URL
    /\ Len(exchanges) = 2
    /\ exchanges[2].outcome.status = 504
    /\ exchanges[2].url = LOCAL_URL
    /\ ~exchanges[2].final
    /\ CallsOf("onError") # {}

\* positions, in sending order, of the chunks whose request is marked final
FinalMarked == {k \in DOMAIN FirstAttempts : FirstAttempts[k].final}
AllChunksSent == pc # "idle" /\ Len(FirstAttempts) = chunks

\* C19 (as claimed): for every file size, the chunks of the upload contain
\* exactly one chunk marked final; it has index chunks-1 and is sent last.
C19_ExactlyOneFinalChunk ==
    AllChunksSent =>
       /\ Cardinality(FinalMarked) = 1
       /\ \A k \in FinalMarked :
             k = Len(FirstAttempts) /\ FirstAttempts[k].chunk = chunks - 1

\* C19 (amended): for every non-empty file exactly one chunk is marked
\* final; it has index chunks-1 and is the last one sent, and no chunk
\* sent before it is marked final.  The empty file has no chunk at all.
C19_ExactlyOneFinalChunkIfNonEmpty ==
    /\ Cardinality(FinalMarked) <= 1
    /\ \A k \in FinalMarked :
          k = Len(FirstAttempts) /\ FirstAttempts[k].chunk = chunks - 1
    /\ (AllChunksSent /\ file.size > 0) => Cardinality(FinalMarked) = 1
    /\ (AllChunksSent /\ file.size = 0) => chunks = 0 /\ exchanges = <<>>
    /\ \A k \in DOMAIN exchanges :
          exchanges[k].final <=> exchanges[k].chunk = chunks - 1

C19_Witness ==
    /\ Finished
    /\ chunks = 3
    /\ AllChunksSent
    /\ FinalMarked = {3}
    /\ CallsOf("onComplete") # {}

\* C20: when the upload fails on a non-success status, the error given to
\* onError carries the error text of the body of the failing response - the
\* retry's response when the retry failed - and without such a text the
\* generic message with the status code of that response; a failing
\* non-final chunk reports it at once.
C20_MostSpecificErrorMessage ==
    ( /\ HasExchange
      /\ HttpFailure(LastExchange) )
    => /\ \A i \in CallsOf("onError") :
             /\ calls[i].error.name = "Error"
             /\ IF LastExchange.outcome.error # ""
                THEN /\ calls[i].error.message = LastExchange.outcome.error
                     /\ calls[i].error.status = 0
                ELSE /\ calls[i].error.message = "Chunk upload failed with status"
                     /\ calls[i].error.status = LastExchange.outcome.status
       /\ ~LastExchange.final => Finished /\ CallsOf("onError") # {}
       /\ (Finished /\ lastProbe # "ok") => CallsOf("onError") # {}

C20_Witness ==
    /\ Finished
    /\ Len(exchanges) = 2
    /\ exchanges[1].outcome.status = 502
    /\ exchanges[1].outcome.error # ""
    /\ exchanges[2].retry
    /\ exchanges[2].outcome.status = 500
    /\ exchanges[2].outcome.error = ""
    /\ CallsOf("onError") # {}

\* ------------------------------------- vocabulary of the concurrency claim
\* the proxy answered 502/504 to one of the first n requests of a log
GatewayFailureWithin(log, n) ==
    \E j \in 1..n : log[j].url = PROXY_URL /\ GatewayFailure(log[j])

\* What a closure holds is what the history of its own invocation
\* determines: the endpoint, the chunk index sequence, the progress values
\* and the terminal callback.
ClosureFollowsOwnHistory(c) ==
    LET log == c.exchanges
        firsts == SelectSeq(log, LAMBDA x : ~x.retry)
        acked == SelectSeq(log, LAMBDA x : Succeeded(x))
        progress == SelectSeq(c.calls, LAMBDA x : x.fn = "onProgress")
        completes == {i \in DOMAIN c.calls : c.calls[i].fn = "onComplete"}
        errors == {i \in DOMAIN c.calls : c.calls[i].fn = "onError"}
    IN  /\ c.hasSwitchedToDirect <=> GatewayFailureWithin(log, Len(log))
        /\ c.pc # "idle" =>
              c.baseUrl = IF GatewayFailureWithin(log, Len(log))
                          THEN DIRECT_BACKEND_URL ELSE PRIMARY_API_URL
        /\ \A k \in DOMAIN log :
              log[k].url = IF GatewayFailureWithin(log, k - 1)
                           THEN DIRECT_BACKEND_URL ELSE PRIMARY_API_URL
        /\ \A k \in DOMAIN firsts :
              /\ firsts[k].chunk = k - 1
              /\ firsts[k].totalChunks * chunkSize >= c.file.size
              /\ (firsts[k].totalChunks - 1) * chunkSize < c.file.size
        /\ SumBytes(firsts) = Min(c.file.size, Len(firsts) * chunkSize)
        /\ Len(progress) >= Len(acked)
        /\ \A k \in DOMAIN acked :
              EqPercent(progress[k].progress,
                        Percent(100 * SumBytes(SubSeq(firsts, 1, k)),
                                c.file.size))
        /\ Cardinality(completes \cup errors) <= 1
        /\ c.pc = "done" => Cardinality(completes \cup errors) = 1
        /\ completes # {} =>
              /\ log # <<>>
              /\ log[Len(log)].final
              /\ Succeeded(log[Len(log)]) \/ c.lastProbe = "ok"
        /\ errors # {} =>
              /\ log # <<>>
              /\ c.lastProbe # "ok"
              /\ ~(Succeeded(log[Len(log)]) /\ log[Len(log)].outcome.hasVideoUrl
                    /\ ~log[Len(log)].retry)

\* C18: with two invocations interleaved in any way, each one's endpoint,
\* chunk index sequence, progress values and terminal callback follow from
\* its own history alone, and whenever an invocation is resumed it finds its
\* closure exactly as it left it, whatever the other one did meanwhile.
C18_InvocationsIndependent ==
    /\ [](ClosureFollowsOwnHistory(Locals) /\ ClosureFollowsOwnHistory(peer))
    /\ [][peer' # peer => (peer' = Locals /\ Locals' = peer)]_vars

C18_Witness ==
    /\ PRIMARY_API_URL = PROXY_URL
    /\ peer.pc = "done"
    /\ peer.hasSwitchedToDirect
    /\ peer.baseUrl = DIRECT_BACKEND_URL
    /\ \E i \in DOMAIN peer.calls : peer.calls[i].fn = "onError"
    /\ Finished
    /\ ~hasSwitchedToDirect
    /\ Len(exchanges) = 2
    /\ exchanges[2].url = PROXY_URL
    /\ CallsOf("onComplete") # {}
    /\ Len(ProgressCalls) = 3

\* C22: when the final chunk was answered 502/504 by the proxy and the retry
\* against the direct backend resolves with a success response whose body
\* holds file.videoUrl, the continuation after the retry reports the progress
\* of the chunk, calls onComplete with the file record of a success body that
\* holds file.videoUrl, reports 100, calls no onError and issues no HEAD probe.
C22_RetryResponseParsed ==
    [][(/\ pc = "retry"
        /\ IsFinalChunk(start, chunks)
        /\ Succeeded(exchanges'[Len(exchanges)])
        /\ exchanges'[Len(exchanges)].outcome.hasVideoUrl)
       => /\ pc' = "done"
          /\ headProbes' = 0
          /\ \E body \in Bodies :
                /\ body.json
                /\ body.videoUrl # ""
                /\ calls' = calls \o
                      <<OnProgress(CurrentProgress(start)),
                        OnComplete(ResponseFileInfo(body), UsingFallback(body)),
                        OnProgress(Hundred)>>]_vars

\* the exchange k of the log failed and was not followed by the retry of
\* its chunk against the direct backend
FailedForGood(k) ==
    /\ HttpFailure(exchanges[k]) \/ FailedOutright(exchanges[k])
    /\ ~(k + 1 \in DOMAIN exchanges /\ exchanges[k + 1].retry
            /\ exchanges[k + 1].chunk = exchanges[k].chunk)

\* C23: once an exchange of a non-final chunk has failed for good (a
\* non-success status that is not retried, a failed retry, a network error
\* or a timeout), the invocation is over: that exchange is the last request
\* ever issued, onError has been called exactly once and is the last call,
\* no HEAD probe has been issued and onComplete is not called.
C23_NonFinalFailureAborts ==
    \A k \in DOMAIN exchanges :
       (~exchanges[k].final /\ FailedForGood(k)) =>
          /\ k = Len(exchanges)
          /\ Finished
          /\ Cardinality(CallsOf("onError")) = 1
          /\ calls[Len(calls)].fn = "onError"
          /\ CallsOf("onComplete") = {}
          /\ headProbes = 0
          /\ lastProbe = "none"

C23_Witness ==
    /\ chunks = 3
    /\ Len(exchanges) = 3
    /\ Succeeded(exchanges[1])
    /\ GatewayFailure(exchanges[2])
    /\ exchanges[3].retry
    /\ ~exchanges[3].final
    /\ FailedOutright(exchanges[3])
    /\ Finished
    /\ Len(ProgressCalls) = 1
    /\ CallsOf("onError") # {}

\* the requests of the log are at most one per chunk plus one retry, and at
\* most maxAttempts HEAD probes have been issued
RequestsBounded ==
    /\ Len(FirstAttempts) <= chunks
    /\ \A k \in DOMAIN FirstAttempts : FirstAttempts[k].chunk = k - 1
    /\ Cardinality(Retries) <= 1
    /\ Len(exchanges) <= chunks + 1
    /\ headProbes <= maxAttempts
    /\ pc = "probe" => headProbes = attempt

\* a HEAD probe is settled in this step
ProbeSettles == pc = "probe" /\ <<attempt, lastProbe, pc>>' # <<attempt, lastProbe, pc>>

\* C24: an invocation on a file of n chunks issues at most n+1 POST
\* exchanges (every chunk once, and at most one retry in the whole
\* invocation) and at most 36 HEAD probes; a probe that throws or is answered
\* non-2xx uses up exactly one attempt and is followed by the next probe as
\* long as attempts are left; the first 2xx probe ends probing; and nothing
\* is requested once the invocation is over.
C24_RequestsBounded ==
    /\ []RequestsBounded
    /\ [][ProbeSettles =>
             \/ /\ lastProbe' = "ok"
                /\ pc' = "done"
                /\ headProbes' = headProbes
                /\ attempt' = attempt
             \/ /\ lastProbe' \in {"notok", "threw"}
                /\ attempt' = attempt + 1
                /\ IF attempt < maxAttempts
                   THEN pc' = "probe" /\ headProbes' = headProbes + 1
                   ELSE pc' = "done" /\ headProbes' = headProbes]_vars
    /\ [][Finished => (headProbes' = headProbes /\ exchanges' = exchanges)]_vars

C24_Witness ==
    /\ chunks = 3
    /\ Len(exchanges) = chunks + 1
    /\ Cardinality(Retries) = 1
    /\ FailedOutright(LastExchange)
    /\ headProbes = maxAttempts
    /\ lastProbe = "threw"
    /\ Finished
    /\ CallsOf("onError") # {}

\* ----------------------------------------- vocabulary of the HTTP client
\* the request k fails with this status in the step (0: without a response)
FailsNow(k, status) ==
    /\ k \in DOMAIN requests
    /\ requests[k].settled = "pending"
    /\ requests'[k].settled # "pending"
    /\ requests'[k].status = status

\* a request is sent in the step
SentNow == Len(requests') = Len(requests) + 1

\* C21: when an error with status 401 passes the response interceptor,
\* auth_token is removed, location.href is set to /login unless the page is
\* on /login already, and the request is rejected with that error; a
\* request sent while no auth_token is stored carries no Authorization
\* header (one sent while a token is stored carries Bearer of that token),
\* and a token only reappears by being stored, not by a response; an error
\* with any other status, or without a response, still rejects and leaves
\* the token and the location as they were.
C21_UnauthorizedClearsTokenAndRedirects ==
    /\ [][\A k \in DOMAIN requests :
            /\ FailsNow(k, 401) =>
                  /\ requests'[k].settled = "rejected"
                  /\ auth_token' = ""
                  /\ pathname' = LOGIN_PATH
                  /\ hrefAssignments' =
                        IF pathname = LOGIN_PATH THEN hrefAssignments
                                                 ELSE hrefAssignments + 1
            /\ \A status \in ErrorStatuses \ {401} :
                  FailsNow(k, status) =>
                     /\ requests'[k].settled = "rejected"
                     /\ UNCHANGED <<auth_token, pathname, hrefAssignments>>]_vars
    /\ [][SentNow =>
            /\ requests'[Len(requests')].authorization =
                  IF auth_token = "" THEN NoAuthorization
                                     ELSE Bearer(auth_token)
            /\ UNCHANGED <<auth_token, pathname, hrefAssignments>>]_vars
    /\ [][(auth_token' # auth_token /\ auth_token' # "") =>
             UNCHANGED <<pathname, hrefAssignments, requests>>]_vars

C21_Witness ==
    /\ Len(requests) = 2
    /\ requests[1].authorization = Bearer("tokenA")
    /\ requests[1].settled = "rejected"
    /\ requests[1].status = 401
    /\ requests[2].authorization = NoAuthorization
    /\ requests[2].settled = "rejected"
    /\ requests[2].status = 500
    /\ auth_token = ""
    /\ pathname = LOGIN_PATH
    /\ hrefAssignments = 1

\* ------------------------------------------- vocabulary of the variants
\* the proxy answered 502/504 to an exchange of the run
ProxyGatewayFailure ==
    \E k \in DOMAIN exchanges :
       exchanges[k].url = PROXY_URL /\ GatewayFailure(exchanges[k])

\* an exchange of the final chunk failed: non-success status, network error
\* or timeout
FinalExchangeFailed ==
    \E k \in DOMAIN exchanges :
       /\ exchanges[k].final
       /\ HttpFailure(exchanges[k]) \/ FailedOutright(exchanges[k])

\* the three variants issued the same requests with the same outcomes
SameRequests == dual.exchanges = exchanges /\ single.exchanges = exchanges

\* the three variants made the same callback calls
SameCalls == dual.calls = calls /\ single.calls = calls

\* the three variants are over
AllFinished == Finished /\ dual.pc = "done" /\ single.pc = "done"

\* As long as the variant with storage recovery has not started polling,
\* the three variants agree step by step on runs without 502/504 from the
\* proxy.
VariantsAgreeBeforeRecovery ==
    (~ProxyGatewayFailure /\ headProbes = 0) =>
       /\ SameRequests
       /\ SameCalls
       /\ dual.pc = pc
       /\ single.pc = pc

\* C25: on a run in which the proxy answers no exchange 502/504 and no
\* exchange of the final chunk fails, the three variants issue the same
\* sequence of chunk requests, and once they are over they have made the
\* same sequence of onProgress, onComplete and onError calls.
C25_VariantsEquivalent ==
    (~ProxyGatewayFailure /\ ~FinalExchangeFailed) =>
       /\ SameRequests
       /\ AllFinished => SameCalls

====
